---- MODULE Spec2Model ----
(***************************************************************************)
(* Model of the folder adapter of immich-go: LocalAssetBrowser.Browse,     *)
(* its Pass-1 walk (passOneFsWalk), its Pass-2 grouping goroutine          *)
(* (passTwo) and the asset materializer (assetFromFile).                   *)
(*                                                                         *)
(* Strings are sequences of tokens.  "." and "/" are the two separator     *)
(* tokens; every other token stands for a run of ordinary characters.  The *)
(* tokens are prefix-free, so comparing token sequences by TokenOrder is   *)
(* the byte-wise comparison Go's sort.Strings and fs.ReadDir perform.      *)
(* The empty sequence is Go's empty string.                                *)
(***************************************************************************)
EXTENDS Integers, Sequences, FiniteSets, TLC

VARIABLES
    fsyss,       \* la.fsyss: the trees given to NewLocalFiles, in order
    flags,       \* la.flags: the ImportFlags
    cancelled,   \* ctx.Done() is closed
    pc,          \* position of the caller inside Browse
    browseErr,   \* the error Browse returned ("none" while it has returned none)
    fsIdx,       \* Browse: index of the tree being walked
    walkPos,     \* fs.WalkDir: index of the next entry of that tree
    catalogs,    \* la.catalogs: per tree, directory name -> candidate names
    log,         \* la.log: the recorded events, in order
    p2pc,        \* position of the Pass-2 goroutine
    p2fs,        \* passTwo: index of the tree (range la.fsyss)
    p2dir,       \* passTwo: index into the sorted directory names
    files,       \* passTwo: the candidate list of the current directory
    links,       \* passTwo: the LinkSet of the current directory
    linkPos,     \* passTwo: index of the next file of the second sub-pass
    keys,        \* passTwo: sorted keys of links
    keyPos,      \* passTwo: index of the next key to resolve
    g,           \* passTwo: the group built for the current key
    opened,      \* every asset handle assetFromFile has created
    closed,      \* the handles on which Close was called
    chanClosed,  \* close(fileChan) has run: the goroutine has exited
    out          \* the groups the consumer has received from fileChan

vars == <<fsyss, flags, cancelled, pc, browseErr, fsIdx, walkPos, catalogs, log,
          p2pc, p2fs, p2dir, files, links, linkPos, keys, keyPos, g,
          opened, closed, chanClosed, out>>

(***************************************************************************)
(* Bounds of the model.                                                    *)
(***************************************************************************)
MaxLinkFiles == 4
MaxScanFiles == 3
MaxAlbumFiles == 2
MaxOrderFiles == 4

(***************************************************************************)
(* Strings.                                                                *)
(***************************************************************************)
Dot == "."
Slash == "/"
EmptyStr == <<>>

\* The tokens in ascending byte order of their first differing character.
TokenOrder == <<"#", ".", "/", "Lib", "XMP", "a", "b", "clip", "cr3", "img", "jpg",
                "mov", "mp4", "thb", "txt", "xmp">>

Rank(tok) == CHOOSE i \in 1..Len(TokenOrder) : TokenOrder[i] = tok

Min2(a, b) == IF a < b THEN a ELSE b

\* s < t as Go compares strings.
StrLess(s, t) ==
    \E i \in 1..(Min2(Len(s), Len(t)) + 1) :
        /\ \A j \in 1..(i - 1) : s[j] = t[j]
        /\ \/ i > Len(s) /\ i <= Len(t)
           \/ i <= Len(s) /\ i <= Len(t) /\ Rank(s[i]) < Rank(t[i])

\* sort.Strings applied to the elements of a set of strings.
SortStrings(S) ==
    [i \in 1..Cardinality(S) |->
        CHOOSE x \in S : Cardinality({y \in S : StrLess(y, x)}) = i - 1]

RECURSIVE LastDot(_, _)
LastDot(p, i) ==
    IF i = 0 THEN 0
    ELSE IF p[i] = Slash THEN 0
    ELSE IF p[i] = Dot THEN i
    ELSE LastDot(p, i - 1)

\* path.Ext / filepath.Ext: the suffix from the final dot of the final element.
Ext(p) ==
    LET i == LastDot(p, Len(p))
    IN  IF i = 0 THEN EmptyStr ELSE SubSeq(p, i, Len(p))

HasSuffix(s, suf) ==
    /\ Len(suf) <= Len(s)
    /\ SubSeq(s, Len(s) - Len(suf) + 1, Len(s)) = suf

\* strings.TrimSuffix
TrimSuffix(s, suf) ==
    IF HasSuffix(s, suf) THEN SubSeq(s, 1, Len(s) - Len(suf)) ELSE s

RECURSIVE LastSlash(_, _)
LastSlash(p, i) ==
    IF i = 0 THEN 0
    ELSE IF p[i] = Slash THEN i
    ELSE LastSlash(p, i - 1)

\* filepath.Split: the directory part keeps its trailing separator.
PathSplit(p) ==
    LET i == LastSlash(p, Len(p))
    IN  [dir |-> SubSeq(p, 1, i), base |-> SubSeq(p, i + 1, Len(p))]

\* filepath.Dir on a clean relative path.
PathDir(p) ==
    LET i == LastSlash(p, Len(p))
    IN  IF i <= 1 THEN IF i = 1 THEN <<Slash>> ELSE <<Dot>>
        ELSE SubSeq(p, 1, i - 1)

\* filepath.Base on a clean relative path.
PathBase(p) ==
    IF p = EmptyStr THEN <<Dot>>
    ELSE SubSeq(p, LastSlash(p, Len(p)) + 1, Len(p))

RECURSIVE StrSplit(_, _)
\* strings.Split(s, sep) for a one-token separator.
StrSplit(s, sep) ==
    IF \A i \in 1..Len(s) : s[i] # sep THEN <<s>>
    ELSE LET i == CHOOSE k \in 1..Len(s) :
                      s[k] = sep /\ \A j \in 1..(k - 1) : s[j] # sep
         IN  <<SubSeq(s, 1, i - 1)>> \o StrSplit(SubSeq(s, i + 1, Len(s)), sep)

RECURSIVE StrJoin(_, _)
\* strings.Join(parts, sep)
StrJoin(parts, sep) ==
    IF Len(parts) = 0 THEN EmptyStr
    ELSE IF Len(parts) = 1 THEN parts[1]
    ELSE parts[1] \o sep \o StrJoin(Tail(parts), sep)

(***************************************************************************)
(* Collaborators configured through ImportFlags.                           *)
(***************************************************************************)
\* flags.SupportedMedia: extension -> media type; the lookup ignores the case
\* of the extension, so the upper-case spelling of a sidecar is listed.
SupportedMedia ==
    [e \in {<<Dot, "jpg">>, <<Dot, "cr3">>, <<Dot, "mp4">>, <<Dot, "mov">>,
            <<Dot, "xmp">>, <<Dot, "XMP">>} |->
        IF e \in {<<Dot, "jpg">>, <<Dot, "cr3">>} THEN "image"
        ELSE IF e \in {<<Dot, "mp4">>, <<Dot, "mov">>} THEN "video"
        ELSE "sidecar"]

\* SupportedMedia.TypeFromExt
TypeFromExt(ext) ==
    IF ext \in DOMAIN SupportedMedia THEN SupportedMedia[ext] ELSE "unknown"

\* BannedFiles.Match: a pattern list is modelled by the name tokens it bans,
\* wherever they occur in the path (file name or directory).
BannedMatch(banned, name) == \E i \in 1..Len(name) : name[i] \in banned

\* IncludedExtensions.Include: an empty list includes everything.
Include(list, ext) == list = {} \/ ext \in list

\* ExcludedExtensions.Exclude
Exclude(list, ext) == ext \in list

\* fileevent.Recorder.Record: one event.
Ev(kind, fi, name, arg) == [kind |-> kind, fsys |-> fi, name |-> name, arg |-> arg]

(***************************************************************************)
(* Input trees.  A file is given by the segments of its directory and its  *)
(* base name; fs.WalkDir visits a tree in pre-order, the entries of each   *)
(* directory sorted by name.                                               *)
(***************************************************************************)
File(segs, base) == [segs |-> segs, base |-> base]

SegLess(x, y) ==
    \E i \in 1..(Min2(Len(x), Len(y)) + 1) :
        /\ \A j \in 1..(i - 1) : x[j] = y[j]
        /\ \/ i > Len(x) /\ i <= Len(y)
           \/ i <= Len(x) /\ i <= Len(y) /\ StrLess(x[i], y[i])

EntryName(segs) == IF segs = <<>> THEN <<Dot>> ELSE StrJoin(segs, <<Slash>>)

PathOf(f) == EntryName(f.segs \o <<f.base>>)

WalkOrder(fileSet) ==
    LET dirs     == {<<>>} \cup
                    UNION {{SubSeq(f.segs, 1, k) : k \in 0..Len(f.segs)} : f \in fileSet}
        fileSegs == {f.segs \o <<f.base>> : f \in fileSet}
        all      == dirs \cup fileSegs
    IN  [i \in 1..Cardinality(all) |->
            LET x == CHOOSE x \in all :
                        Cardinality({y \in all : SegLess(y, x)}) = i - 1
            IN  [name |-> EntryName(x), isDir |-> x \in dirs]]

\* A tree: its name, whether it implements fshelper.NameFS, the files it holds
\* and the order in which fs.WalkDir visits them.
Tree(name, named, fileSet) ==
    [name |-> name, named |-> named, content |-> fileSet,
     entries |-> WalkOrder(fileSet)]

\* fs.WalkDir after the callback returned SkipDir for the directory at i:
\* the next entry outside that directory.
SkipSubtree(entries, i) ==
    LET prefix == entries[i].name \o <<Slash>>
        inside(j) == /\ Len(entries[j].name) > Len(prefix)
                     /\ SubSeq(entries[j].name, 1, Len(prefix)) = prefix
    IN  CHOOSE j \in (i + 1)..(Len(entries) + 1) :
            /\ \A k \in (i + 1)..(j - 1) : inside(k)
            /\ j = Len(entries) + 1 \/ ~inside(j)

(***************************************************************************)
(* Pass 1: the callback of fs.WalkDir on one file (lines 88-131).  evs are *)
(* the events it records, keep says whether the name is appended to the    *)
(* bucket of dir.                                                          *)
(***************************************************************************)
DiscoveredKind(t) ==
    IF t = "image" THEN "DiscoveredImage"
    ELSE IF t = "video" THEN "DiscoveredVideo"
    ELSE "DiscoveredSidecar"

CatalogDir(name) ==
    LET d == TrimSuffix(PathSplit(name).dir, <<Slash>>)
    IN  IF d = EmptyStr THEN <<Dot>> ELSE d

\* Lines 93-131 without the mutant's include test.
classifyAndFilter_IncludeIgnored(fl, fi, name) ==
    LET ext  == Ext(PathSplit(name).base)
        t    == TypeFromExt(ext)
        disc == <<Ev(DiscoveredKind(t), fi, name, "")>>
    IN  IF t = "unknown"
        THEN [evs |-> <<Ev("DiscoveredUnsupported", fi, name, "unsupported file type")>>,
              keep |-> FALSE]
        ELSE IF t = "sidecar" /\ fl.IgnoreSideCarFiles
        THEN [evs |-> disc \o <<Ev("DiscoveredDiscarded", fi, name, "sidecar file ignored")>>,
              keep |-> FALSE]
        ELSE IF Exclude(fl.ExcludedExtensions, ext)
        THEN [evs |-> disc \o <<Ev("DiscoveredDiscarded", fi, name, "extension excluded")>>,
              keep |-> FALSE]
        ELSE [evs |-> disc, keep |-> TRUE]

\* Lines 93-131: classification, discovery event, sidecar and extension filters.
classifyAndFilter(fl, fi, name) ==
    LET ext  == Ext(PathSplit(name).base)
        t    == TypeFromExt(ext)
        disc == <<Ev(DiscoveredKind(t), fi, name, "")>>
    IN  IF t = "unknown"
        THEN [evs |-> <<Ev("DiscoveredUnsupported", fi, name, "unsupported file type")>>,
              keep |-> FALSE]
        ELSE IF t = "sidecar" /\ fl.IgnoreSideCarFiles
        THEN [evs |-> disc \o <<Ev("DiscoveredDiscarded", fi, name, "sidecar file ignored")>>,
              keep |-> FALSE]
        ELSE IF ~Include(fl.IncludedExtensions, ext)
        THEN [evs |-> disc \o <<Ev("DiscoveredDiscarded", fi, name, "extension not included")>>,
              keep |-> FALSE]
        ELSE IF Exclude(fl.ExcludedExtensions, ext)
        THEN [evs |-> disc \o <<Ev("DiscoveredDiscarded", fi, name, "extension excluded")>>,
              keep |-> FALSE]
        ELSE [evs |-> disc, keep |-> TRUE]

\* The banned file is recorded but the callback does not return.
passOneFile_BannedFallsThrough(fl, fi, name) ==
    IF BannedMatch(fl.BannedFiles, name)
    THEN [evs  |-> <<Ev("DiscoveredDiscarded", fi, name, "banned file")>>
                   \o classifyAndFilter(fl, fi, name).evs,
          keep |-> classifyAndFilter(fl, fi, name).keep]
    ELSE classifyAndFilter(fl, fi, name)

passOneFile(fl, fi, name) ==
    IF BannedMatch(fl.BannedFiles, name)
    THEN [evs |-> <<Ev("DiscoveredDiscarded", fi, name, "banned file")>>, keep |-> FALSE]
    ELSE classifyAndFilter(fl, fi, name)

(***************************************************************************)
(* Pass 2, linking (lines 164-229).  A LinkSet maps a key to a fileLinks   *)
(* record; the empty string is an absent field.  Go iterates a map in an   *)
(* unspecified order, so a loop over links that stops at the first match   *)
(* may stop at any matching entry: the operators return the set of         *)
(* LinkSets the step can produce.                                          *)
(***************************************************************************)
fileLinks(image, video, sidecar) == [image |-> image, video |-> video, sidecar |-> sidecar]

EmptyLinks == [k \in {} |-> fileLinks(EmptyStr, EmptyStr, EmptyStr)]

\* links[k] = v, adding the key when it is new.
MapSet(m, k, v) == [x \in DOMAIN m \cup {k} |-> IF x = k THEN v ELSE m[x]]

\* strings.TrimSuffix(f, path.Ext(f))
Stem(f) == TrimSuffix(f, Ext(f))

IsImage(f) == TypeFromExt(Ext(f)) = "image"
IsVideo(f) == TypeFromExt(Ext(f)) = "video"
IsSidecar(f) == TypeFromExt(Ext(f)) = "sidecar"

\* First sub-pass (lines 165-172): every image is its own entry.
LinkImages(fs) ==
    LET imgs == {fs[i] : i \in {j \in 1..Len(fs) : IsImage(fs[j])}}
    IN  [k \in imgs |-> fileLinks(k, EmptyStr, EmptyStr)]

\* The sidecar rule without its exact-key test.
LinkSidecar_StemOnly(ls, file) ==
    LET base == Stem(file)
        hits == {f \in DOMAIN ls : Stem(f) = base}
    IN  IF hits = {} THEN {ls}
        ELSE {[ls EXCEPT ![f].sidecar = file] : f \in hits}

\* case metadata.TypeSidecar (lines 184-200)
LinkSidecar(ls, file) ==
    LET base == Stem(file)
        hits == {f \in DOMAIN ls : Stem(f) = base}
    IN  IF base \in DOMAIN ls
        THEN {[ls EXCEPT ![base].sidecar = file]}
        ELSE IF hits = {} THEN {ls}
        ELSE {[ls EXCEPT ![f].sidecar = file] : f \in hits}

\* case metadata.TypeVideo (lines 201-227)
LinkVideo(ls, file) ==
    LET base == Stem(file)
        hits == {f \in DOMAIN ls : Stem(f) = base \/ Stem(f) = file}
    IN  IF base \in DOMAIN ls
        THEN {[ls EXCEPT ![base].sidecar = file]}
        ELSE IF hits = {}
        THEN {MapSet(ls, file, fileLinks(EmptyStr, file, EmptyStr))}
        ELSE {[ls EXCEPT ![f].video = file] : f \in hits}

\* One iteration of the loop labelled next (lines 175-229).
LinkFile(ls, file) ==
    IF IsImage(file) THEN {ls}
    ELSE IF IsSidecar(file) THEN LinkSidecar(ls, file)
    ELSE IF IsVideo(file) THEN LinkVideo(ls, file)
    ELSE {ls}

(***************************************************************************)
(* Asset materializer (assetFromFile, lines 360-390).  o is what the       *)
(* metadata reader, fs.Stat and the date range produce for the file:       *)
(* made are the handles created, shut those closed before returning.       *)
(***************************************************************************)
Handle(fi, name) == [fsys |-> fi, name |-> name]

NoHandle == Handle(0, EmptyStr)

Outcomes(fl) ==
    {"ok", "readErr", "statErr"} \cup (IF fl.DateRangeSet THEN {"outOfRange"} ELSE {})

assetFromFile(fl, fi, name, o) ==
    LET a == Handle(fi, name)
    IN  IF o \in {"readErr", "statErr"}
        THEN [a |-> NoHandle, err |-> TRUE, made |-> {a}, shut |-> {a}, evs |-> <<>>]
        ELSE IF fl.DateRangeSet /\ o = "outOfRange"
        THEN [a |-> NoHandle, err |-> FALSE, made |-> {a}, shut |-> {a},
              evs |-> <<Ev("DiscoveredDiscarded", fi, name, "asset outside date range")>>]
        ELSE [a |-> a, err |-> FALSE, made |-> {a}, shut |-> {}, evs |-> <<>>]

\* errFn that records nothing.
errFn_Silent(fi, name, err) == <<>>

\* errFn (lines 148-152)
errFn(fi, name, err) == IF err THEN <<Ev("Error", fi, name, "error")>> ELSE <<>>

(***************************************************************************)
(* Album options (lines 308-344).                                          *)
(***************************************************************************)
Album(path, title) == [Path |-> path, Title |-> title]

FolderTitle(tree, fileName) ==
    LET title == PathBase(PathDir(fileName))
    IN  IF title = <<Dot>> /\ tree.named THEN tree.name ELSE title

\* The title built from the directory segments alone.
PathTitle_NoTreeName(fl, tree, fileName) ==
    LET dir   == PathDir(fileName)
        parts == IF dir # <<Dot>> THEN StrSplit(dir, Slash) ELSE <<>>
    IN  StrJoin(parts, fl.AlbumNamePathSeparator)

PathTitle(fl, tree, fileName) ==
    LET dir   == PathDir(fileName)
        parts == (IF tree.named THEN <<tree.name>> ELSE <<>>) \o
                 (IF dir # <<Dot>> THEN StrSplit(dir, Slash) ELSE <<>>)
    IN  StrJoin(parts, fl.AlbumNamePathSeparator)

Albums(fl, tree, fileName) ==
    IF fl.ImportIntoAlbum # EmptyStr
    THEN <<Album(fileName, fl.ImportIntoAlbum)>>
    ELSE IF fl.UsePathAsAlbumName = "Folder"
    THEN IF FolderTitle(tree, fileName) # EmptyStr
         THEN <<Album(fileName, FolderTitle(tree, fileName))>>
         ELSE <<>>
    ELSE IF fl.UsePathAsAlbumName = "Path"
    THEN <<Album(PathDir(fileName), PathTitle(fl, tree, fileName))>>
    ELSE <<>>

(***************************************************************************)
(* Pass 2, resolution of one LinkSet entry (lines 233-344).                *)
(***************************************************************************)
Group(kind, assets) ==
    [Kind |-> kind, Assets |-> assets, SideCar |-> EmptyStr, Albums |-> <<>>]

NoGroup == Group("nil", <<>>)

\* The companion video put first.
MotionPhotoGroup_VideoFirst(a, i) == Group("MotionPhoto", <<i, a>>)

MotionPhotoGroup(a, i) == Group("MotionPhoto", <<a, i>>)

NoneGroup(a) == Group("None", <<a>>)

\* Lines 300-344: the sidecar and the albums of a built group.
Finish(fl, fi, tree, linked, grp, a) ==
    [g   |-> [grp EXCEPT !.SideCar = linked.sidecar,
                         !.Albums = Albums(fl, tree, a.name)],
     evs |-> IF linked.sidecar # EmptyStr
             THEN <<Ev("AnalysisAssociatedMetadata", fi, a.name, linked.sidecar)>>
             ELSE <<>>]

\* The primary asset of an entry, then the companion video when there is one.
\* status: "abort" (return), "skip" (continue) or "group".
Resolve(fl, fi, tree, linked, o1, o2) ==
    LET primary == IF linked.image # EmptyStr THEN linked.image ELSE linked.video
        r1 == assetFromFile(fl, fi, primary, o1)
        r2 == assetFromFile(fl, fi, linked.video, o2)
    IN  IF linked.image = EmptyStr /\ linked.video = EmptyStr
        THEN [status |-> "skip", g |-> NoGroup, made |-> {}, shut |-> {}, evs |-> <<>>]
        ELSE IF r1.err
        THEN [status |-> "abort", g |-> NoGroup, made |-> r1.made, shut |-> r1.shut,
              evs |-> r1.evs \o errFn(fi, primary, TRUE)]
        ELSE IF r1.a = NoHandle
        THEN [status |-> "skip", g |-> NoGroup, made |-> r1.made, shut |-> r1.shut,
              evs |-> r1.evs]
        ELSE IF linked.image # EmptyStr /\ linked.video # EmptyStr
        THEN LET grp == IF r2.a # NoHandle THEN MotionPhotoGroup(r1.a, r2.a)
                        ELSE NoneGroup(r1.a)
                 fin == Finish(fl, fi, tree, linked, grp, r1.a)
             IN  [status |-> "group", g |-> fin.g,
                  made |-> r1.made \cup r2.made, shut |-> r1.shut \cup r2.shut,
                  evs |-> r1.evs \o r2.evs
                          \o (IF r2.a = NoHandle THEN errFn(fi, linked.video, r2.err) ELSE <<>>)
                          \o fin.evs]
        ELSE LET fin == Finish(fl, fi, tree, linked, NoneGroup(r1.a), r1.a)
             IN  [status |-> "group", g |-> fin.g, made |-> r1.made, shut |-> r1.shut,
                  evs |-> r1.evs \o fin.evs]

(***************************************************************************)
(* Configurations and inputs.                                              *)
(***************************************************************************)
ImportFlags(rec, banned, ignore, inc, exc, dateRange, intoAlbum, mode) ==
    [Recursive |-> rec, BannedFiles |-> banned,
     IgnoreSideCarFiles |-> ignore,
     IncludedExtensions |-> inc, ExcludedExtensions |-> exc,
     DateRangeSet |-> dateRange, ImportIntoAlbum |-> intoAlbum,
     UsePathAsAlbumName |-> mode, AlbumNamePathSeparator |-> <<"#">>]

A == <<"a">>
B == <<"b">>

S(a, b) == <<a, Dot, b>>
S3(a, b, c) == <<a, Dot, b, Dot, c>>

\* One directory holding the naming variants the linking rules distinguish.
LinkUniverse ==
    {File(<<>>, S("img", "jpg")), File(<<>>, S("img", "cr3")),
     File(<<>>, S("img", "mp4")), File(<<>>, S("img", "mov")),
     File(<<>>, S("img", "xmp")), File(<<>>, S3("img", "jpg", "xmp")),
     File(<<>>, S3("img", "jpg", "XMP")), File(<<>>, S3("img", "jpg", "mp4")), File(<<>>, S3("img", "mp4", "jpg")),
     File(<<>>, S("clip", "jpg")), File(<<>>, S("clip", "mp4"))}

\* Banned, unsupported and nested files for the Pass-1 filters.
ScanUniverse ==
    {File(<<>>, S("img", "jpg")), File(<<>>, S("img", "cr3")),
     File(<<>>, S("img", "mp4")), File(<<>>, S("img", "xmp")),
     File(<<>>, S("img", "txt")), File(<<>>, S("thb", "jpg")),
     File(<<A>>, S("img", "jpg")), File(<<A>>, S("thb", "cr3")),
     File(<<<<"thb">>>>, S("img", "jpg"))}

ExtLists == {{}, {<<Dot, "jpg">>}, {<<Dot, "cr3">>, <<Dot, "mp4">>}}

\* Nested directories for the album titles.
AlbumUniverse ==
    {File(<<>>, S("img", "jpg")), File(<<>>, S("img", "mp4")),
     File(<<A>>, S("img", "jpg")), File(<<A>>, S("clip", "mp4")),
     File(<<A, B>>, S("img", "jpg")), File(<<A, B>>, S("img", "mp4")),
     File(<<B>>, S("clip", "jpg"))}

\* NewLocalFiles (lines 34-56) rejects a fixed album together with an album mode.
AlbumConfigs ==
    {c \in [into : {EmptyStr, <<"Lib">>}, mode : {"None", "Folder", "Path"}] :
        ~(c.into # EmptyStr /\ c.mode # "None")}

\* The state NewLocalFiles leaves, Browse not yet called.
Start(trees, fl) ==
    /\ fsyss = trees
    /\ flags = fl
    /\ cancelled = FALSE
    /\ pc = "browse"
    /\ browseErr = "none"
    /\ fsIdx = 1
    /\ walkPos = 1
    /\ catalogs = <<>>
    /\ log = <<>>
    /\ p2pc = "idle"
    /\ p2fs = 1
    /\ p2dir = 1
    /\ files = <<>>
    /\ links = EmptyLinks
    /\ linkPos = 1
    /\ keys = <<>>
    /\ keyPos = 1
    /\ g = NoGroup
    /\ opened = {}
    /\ closed = {}
    /\ chanClosed = FALSE
    /\ out = <<>>

Init ==
    \E fileSet \in SUBSET LinkUniverse, dr \in BOOLEAN :
        /\ Cardinality(fileSet) <= MaxLinkFiles
        /\ Start(<<Tree(<<"Lib">>, TRUE, fileSet)>>,
                 ImportFlags(TRUE, {}, FALSE, {}, {}, dr, EmptyStr, "None"))

InitScan ==
    \E fileSet \in SUBSET ScanUniverse, rec \in BOOLEAN, ign \in BOOLEAN,
       inc \in ExtLists, exc \in ExtLists :
        /\ Cardinality(fileSet) <= MaxScanFiles
        /\ Start(<<Tree(<<"Lib">>, TRUE, fileSet)>>,
                 ImportFlags(rec, {"thb"}, ign, inc, exc, FALSE, EmptyStr, "None"))

InitAlbum ==
    \E fileSet \in SUBSET AlbumUniverse, named \in BOOLEAN, c \in AlbumConfigs :
        /\ Cardinality(fileSet) <= MaxAlbumFiles
        /\ Start(<<Tree(<<"Lib">>, named, fileSet)>>,
                 ImportFlags(TRUE, {}, FALSE, {}, {}, FALSE, c.into, c.mode))

\* Two trees with the same layout: the root, a, a/b and b.
OrderUniverse ==
    {File(<<>>, S("img", "jpg")), File(<<>>, S("clip", "jpg")),
     File(<<A>>, S("img", "jpg")), File(<<A, B>>, S("img", "jpg")),
     File(<<B>>, S("clip", "jpg"))}

\* Browse over the trees handed to NewLocalFiles, in the order they were given.
InitOrder ==
    \E first \in SUBSET OrderUniverse, second \in SUBSET OrderUniverse :
        /\ Cardinality(first) + Cardinality(second) <= MaxOrderFiles
        /\ Start(<<Tree(<<"Lib">>, TRUE, first), Tree(<<"b">>, TRUE, second)>>,
                 ImportFlags(TRUE, {}, FALSE, {}, {}, FALSE, EmptyStr, "None"))

(***************************************************************************)
(* Actions.                                                                *)
(***************************************************************************)
\* The caller's context is cancelled while the scan is running.
Cancel ==
    /\ ~cancelled
    /\ pc # "failed"
    /\ ~chanClosed
    /\ cancelled' = TRUE
    /\ UNCHANGED <<fsyss, flags, pc, browseErr, fsIdx, walkPos, catalogs, log,
                   p2pc, p2fs, p2dir, files, links, linkPos, keys, keyPos, g,
                   opened, closed, chanClosed, out>>

\* Browse (lines 58-66): the next tree is handed to passOneFsWalk (line 69), or
\* passTwo starts its goroutine and Browse returns the channel.
BrowseLoop ==
    /\ pc = "browse"
    /\ IF fsIdx <= Len(fsyss)
       THEN /\ catalogs' = Append(catalogs, [d \in {} |-> <<>>])
            /\ walkPos' = 1
            /\ pc' = "walk"
            /\ UNCHANGED p2pc
       ELSE /\ pc' = "returned"
            /\ p2pc' = "dirs"
            /\ UNCHANGED <<catalogs, walkPos>>
    /\ UNCHANGED <<fsyss, flags, cancelled, browseErr, fsIdx, log, p2fs, p2dir,
                   files, links, linkPos, keys, keyPos, g, opened, closed,
                   chanClosed, out>>

\* The callback of fs.WalkDir on the next entry (lines 71-134).
P1Visit ==
    /\ pc = "walk"
    /\ walkPos <= Len(fsyss[fsIdx].entries)
    /\ LET e    == fsyss[fsIdx].entries[walkPos]
           r    == passOneFile(flags, fsIdx, e.name)
           dir  == CatalogDir(e.name)
           cat  == IF dir \in DOMAIN catalogs[fsIdx] THEN catalogs[fsIdx][dir] ELSE <<>>
       IN  IF e.isDir
           THEN IF ~flags.Recursive /\ e.name # <<Dot>>
                THEN /\ walkPos' = SkipSubtree(fsyss[fsIdx].entries, walkPos)
                     /\ UNCHANGED <<catalogs, log, pc, browseErr>>
                ELSE /\ catalogs' = [catalogs EXCEPT ![fsIdx] = MapSet(@, e.name, <<>>)]
                     /\ walkPos' = walkPos + 1
                     /\ UNCHANGED <<log, pc, browseErr>>
           ELSE IF cancelled
                THEN /\ pc' = "failed"
                     /\ browseErr' = "cancelled"
                     /\ UNCHANGED <<catalogs, log, walkPos>>
                ELSE /\ log' = log \o r.evs
                     /\ catalogs' = IF r.keep
                                    THEN [catalogs EXCEPT
                                            ![fsIdx] = MapSet(@, dir, Append(cat, e.name))]
                                    ELSE catalogs
                     /\ walkPos' = walkPos + 1
                     /\ UNCHANGED <<pc, browseErr>>
    /\ UNCHANGED <<fsyss, flags, cancelled, fsIdx, p2pc, p2fs, p2dir, files, links,
                   linkPos, keys, keyPos, g, opened, closed, chanClosed, out>>

\* fs.WalkDir has visited every entry: passOneFsWalk returns nil (line 135).
P1Return ==
    /\ pc = "walk"
    /\ walkPos > Len(fsyss[fsIdx].entries)
    /\ pc' = "browse"
    /\ fsIdx' = fsIdx + 1
    /\ UNCHANGED <<fsyss, flags, cancelled, browseErr, walkPos, catalogs, log,
                   p2pc, p2fs, p2dir, files, links, linkPos, keys, keyPos, g,
                   opened, closed, chanClosed, out>>

\* The directories in an order that was never sorted.
SortedDirs_Unsorted(fi) ==
    LET s == SortStrings(DOMAIN catalogs[fi])
    IN  [i \in 1..Len(s) |-> s[Len(s) + 1 - i]]

\* The directory paths of the catalog of tree fi, sorted (lines 154-155).
SortedDirs(fi) == SortStrings(DOMAIN catalogs[fi])

\* passTwo, the tree and directory loops (lines 153-172): the next directory,
\* its images linked; an empty bucket is skipped.
P2NextDir ==
    /\ p2pc = "dirs"
    /\ p2fs <= Len(fsyss)
    /\ IF p2dir > Len(SortedDirs(p2fs))
       THEN /\ p2fs' = p2fs + 1
            /\ p2dir' = 1
            /\ UNCHANGED <<p2pc, files, links, linkPos>>
       ELSE LET fl == catalogs[p2fs][SortedDirs(p2fs)[p2dir]]
            IN  IF Len(fl) = 0
                THEN /\ p2dir' = p2dir + 1
                     /\ UNCHANGED <<p2pc, p2fs, files, links, linkPos>>
                ELSE /\ files' = fl
                     /\ links' = LinkImages(fl)
                     /\ linkPos' = 1
                     /\ p2pc' = "link"
                     /\ UNCHANGED <<p2fs, p2dir>>
    /\ UNCHANGED <<fsyss, flags, cancelled, pc, browseErr, fsIdx, walkPos, catalogs,
                   log, keys, keyPos, g, opened, closed, chanClosed, out>>

\* passTwo has gone through every tree: the goroutine returns and the deferred
\* close(fileChan) runs (line 142).
P2Exit ==
    /\ p2pc = "dirs"
    /\ p2fs > Len(fsyss)
    /\ p2pc' = "done"
    /\ chanClosed' = TRUE
    /\ UNCHANGED <<fsyss, flags, cancelled, pc, browseErr, fsIdx, walkPos, catalogs,
                   log, p2fs, p2dir, files, links, linkPos, keys, keyPos, g,
                   opened, closed, out>>

\* One file of the second sub-pass (lines 175-229).
P2LinkFile ==
    /\ p2pc = "link"
    /\ linkPos <= Len(files)
    /\ \E ls \in LinkFile(links, files[linkPos]) : links' = ls
    /\ linkPos' = linkPos + 1
    /\ UNCHANGED <<fsyss, flags, cancelled, pc, browseErr, fsIdx, walkPos, catalogs,
                   log, p2pc, p2fs, p2dir, files, keys, keyPos, g, opened, closed,
                   chanClosed, out>>

\* The keys of the LinkSet, sorted (lines 231-232).
P2SortKeys ==
    /\ p2pc = "link"
    /\ linkPos > Len(files)
    /\ keys' = SortStrings(DOMAIN links)
    /\ keyPos' = 1
    /\ IF DOMAIN links = {}
       THEN p2pc' = "dirs" /\ p2dir' = p2dir + 1
       ELSE p2pc' = "resolve" /\ UNCHANGED p2dir
    /\ UNCHANGED <<fsyss, flags, cancelled, pc, browseErr, fsIdx, walkPos, catalogs,
                   log, p2fs, files, links, linkPos, g, opened, closed, chanClosed, out>>

\* The loop over the keys moves on: the next key, or the next directory.
NextKey ==
    /\ keyPos' = keyPos + 1
    /\ IF keyPos + 1 > Len(keys)
       THEN p2pc' = "dirs" /\ p2dir' = p2dir + 1
       ELSE p2pc' = "resolve" /\ UNCHANGED p2dir

\* One entry is materialised and its group built (lines 233-344).
P2Resolve ==
    /\ p2pc = "resolve"
    /\ \E o1 \in Outcomes(flags), o2 \in Outcomes(flags) :
        LET r == Resolve(flags, p2fs, fsyss[p2fs], links[keys[keyPos]], o1, o2)
        IN  /\ opened' = opened \cup r.made
            /\ closed' = closed \cup r.shut
            /\ log' = log \o r.evs
            /\ IF r.status = "abort"
               THEN /\ p2pc' = "done"
                    /\ chanClosed' = TRUE
                    /\ UNCHANGED <<g, keyPos, p2dir>>
               ELSE IF r.status = "skip"
               THEN /\ NextKey
                    /\ UNCHANGED <<g, chanClosed>>
               ELSE /\ g' = r.g
                    /\ p2pc' = "push"
                    /\ UNCHANGED <<keyPos, p2dir, chanClosed>>
    /\ UNCHANGED <<fsyss, flags, cancelled, pc, browseErr, fsIdx, walkPos, catalogs,
                   p2fs, files, links, linkPos, keys, out>>

\* The select before the push (lines 346-351): return when the context is done,
\* otherwise block in fileChan <- g.
P2Push ==
    /\ p2pc = "push"
    /\ IF cancelled
       THEN p2pc' = "done" /\ chanClosed' = TRUE
       ELSE p2pc' = "send" /\ UNCHANGED chanClosed
    /\ UNCHANGED <<fsyss, flags, cancelled, pc, browseErr, fsIdx, walkPos, catalogs,
                   log, p2fs, p2dir, files, links, linkPos, keys, keyPos, g,
                   opened, closed, out>>

\* The consumer receives from fileChan: the blocked send completes.
Receive ==
    /\ p2pc = "send"
    /\ out' = Append(out, g)
    /\ g' = NoGroup
    /\ NextKey
    /\ UNCHANGED <<fsyss, flags, cancelled, pc, browseErr, fsIdx, walkPos, catalogs,
                   log, p2fs, files, links, linkPos, keys, opened, closed, chanClosed>>

Next ==
    \/ Cancel
    \/ BrowseLoop
    \/ P1Visit
    \/ P1Return
    \/ P2NextDir
    \/ P2Exit
    \/ P2LinkFile
    \/ P2SortKeys
    \/ P2Resolve
    \/ P2Push
    \/ Receive

Spec == Init /\ [][Next]_vars

SpecScan == InitScan /\ [][Next]_vars

SpecAlbum == InitAlbum /\ [][Next]_vars

SpecOrder == InitOrder /\ [][Next]_vars

\* The steps of the caller of Browse, up to its return.
BrowseStep == BrowseLoop \/ P1Visit \/ P1Return

\* The steps the goroutine of passTwo takes on its own (lines 141-354); the
\* send of line 350 completes only in Receive, a step of the consumer.
ProducerStep == P2NextDir \/ P2Exit \/ P2LinkFile \/ P2SortKeys \/ P2Resolve \/ P2Push

\* The scheduler runs every goroutine that can run; the consumer is free to
\* stop receiving and the caller is free never to cancel.
SpecLive == Init /\ [][Next]_vars /\ WF_vars(BrowseStep) /\ WF_vars(ProducerStep)

(***************************************************************************)
(* Vocabulary of the properties.                                           *)
(***************************************************************************)
Range(seq) == {seq[i] : i \in 1..Len(seq)}

\* The groups passTwo has built: those received and the one it holds.
Built == (Range(out) \cup {g}) \ {NoGroup}

\* The handle of the file was created and not closed by the materializer.
Materialised(fi, name) == Handle(fi, name) \in opened \ closed

Holds(grp, h) == \E k \in 1..Len(grp.Assets) : grp.Assets[k] = h

\* Every name a group refers to.
NamesIn(grp) == {grp.Assets[k].name : k \in 1..Len(grp.Assets)} \cup {grp.SideCar}

EventsOf(fi, name) ==
    LET about(e) == e.fsys = fi /\ e.name = name
    IN  SelectSeq(log, about)

\* The files of tree fi on which the callback of the walk has run to its end.
Visited(fi) ==
    IF fi > Len(catalogs) THEN {}
    ELSE LET es   == fsyss[fi].entries
             upto == IF fi = fsIdx /\ pc \in {"walk", "failed"} THEN walkPos - 1 ELSE Len(es)
         IN  {es[j].name : j \in {k \in 1..upto :
                 /\ ~es[k].isDir
                 /\ flags.Recursive \/ CatalogDir(es[k].name) = <<Dot>>}}

InSomeBucket(fi, name) ==
    \E d \in DOMAIN catalogs[fi] : name \in Range(catalogs[fi][d])

InSomeGroup(fi, name) ==
    \/ \E grp \in Built : grp.Assets[1].fsys = fi /\ name \in NamesIn(grp)
    \/ fi = p2fs /\ \E k \in DOMAIN links :
          name \in {links[k].image, links[k].video, links[k].sidecar}

\* The goroutine of passTwo left through the ctx.Done() branch of its select.
PushAbandoned == p2pc = "done" /\ g # NoGroup

(***************************************************************************)
(* C1.  An image and a video of one directory with the same name minus the *)
(* last extension, both materialised: exactly one built group holds the    *)
(* video, it is a MotionPhoto [image, video] whose image has that stem,    *)
(* and no None group holds the video.                                      *)
(***************************************************************************)
C1_SameStemMotionPhoto ==
    \A fi \in DOMAIN catalogs : \A d \in DOMAIN catalogs[fi] :
        \A i \in Range(catalogs[fi][d]), v \in Range(catalogs[fi][d]) :
            (/\ IsImage(i) /\ IsVideo(v) /\ Stem(i) = Stem(v)
             /\ Materialised(fi, i) /\ Materialised(fi, v))
            => LET holding == {grp \in Built : Holds(grp, Handle(fi, v))}
               IN  /\ Cardinality(holding) = 1
                   /\ \A grp \in holding :
                        /\ grp.Kind = "MotionPhoto"
                        /\ grp.Assets[2] = Handle(fi, v)
                        /\ IsImage(grp.Assets[1].name)
                        /\ Stem(grp.Assets[1].name) = Stem(v)

(***************************************************************************)
(* C2.  The link step of a video whose name minus its last extension is    *)
(* the key of an existing entry stores the video as that entry's video and *)
(* leaves the entry's sidecar alone.                                       *)
(***************************************************************************)
C2_ExactKeyVideo ==
    [][(/\ p2pc = "link" /\ linkPos <= Len(files) /\ linkPos' = linkPos + 1
        /\ IsVideo(files[linkPos])
        /\ Stem(files[linkPos]) \in DOMAIN links)
       => /\ links'[Stem(files[linkPos])].video = files[linkPos]
          /\ links'[Stem(files[linkPos])].sidecar = links[Stem(files[linkPos])].sidecar]_vars

(***************************************************************************)
(* C3.  Every group received from the stream is a MotionPhoto of exactly   *)
(* two handles, an image then a video, or a None group of exactly one      *)
(* handle; the handles are open.                                           *)
(***************************************************************************)
GroupShape(grp) ==
    /\ grp.Kind \in {"MotionPhoto", "None"}
    /\ \A k \in 1..Len(grp.Assets) : grp.Assets[k] \in opened \ closed
    /\ grp.Kind = "MotionPhoto" =>
          /\ Len(grp.Assets) = 2
          /\ IsImage(grp.Assets[1].name)
          /\ IsVideo(grp.Assets[2].name)
    /\ grp.Kind = "None" => Len(grp.Assets) = 1

C3_GroupShape == \A n \in 1..Len(out) : GroupShape(out[n])

\* A MotionPhoto and a None group were received in a scan in which a
\* materialisation failed or was rejected.
C3_Witness ==
    /\ \E n \in 1..Len(out) : out[n].Kind = "MotionPhoto"
    /\ \E n \in 1..Len(out) : out[n].Kind = "None"
    /\ closed # {}

(***************************************************************************)
(* C4.  Once the context is cancelled the consumer receives no further     *)
(* group.                                                                  *)
(***************************************************************************)
C4_NoGroupAfterCancel == [][cancelled => out' = out]_vars

(***************************************************************************)
(* C5.  A scan ended by the cancellation (the walk returned ctx.Err(), or  *)
(* passTwo left through the ctx.Done() branch) has reported a cancellation *)
(* error to the caller of Browse.                                          *)
(***************************************************************************)
C5_CancelReported ==
    (pc = "failed" \/ (chanClosed /\ PushAbandoned)) => browseErr = "cancelled"

(***************************************************************************)
(* C6.  When the goroutine of passTwo has exited, every handle that        *)
(* assetFromFile created is closed or is in a group the consumer received. *)
(***************************************************************************)
C6_NoHandleLeak ==
    chanClosed =>
        \A h \in opened : h \in closed \/ \E n \in 1..Len(out) : Holds(out[n], h)

(***************************************************************************)
(* C7.  A file matching the banned-name matcher has, once the walk has     *)
(* visited it, exactly one event, the discard with reason "banned file"    *)
(* (and none before); it is in no bucket of the catalog and no group       *)
(* refers to it as image, video or sidecar.                                *)
(***************************************************************************)
C7_BannedDiscarded ==
    \A fi \in 1..Len(catalogs) : \A f \in fsyss[fi].content :
        BannedMatch(flags.BannedFiles, PathOf(f)) =>
            /\ EventsOf(fi, PathOf(f)) =
                  IF PathOf(f) \in Visited(fi)
                  THEN <<Ev("DiscoveredDiscarded", fi, PathOf(f), "banned file")>>
                  ELSE <<>>
            /\ ~InSomeBucket(fi, PathOf(f))
            /\ ~InSomeGroup(fi, PathOf(f))

\* A recursive scan has visited a file banned by its directory and one banned
\* by its own name, and has delivered a group before ending.
C7_Witness ==
    /\ flags.Recursive
    /\ \E n \in Visited(1) : BannedMatch(flags.BannedFiles, PathDir(n))
    /\ \E n \in Visited(1) : BannedMatch(flags.BannedFiles, PathBase(n))
    /\ chanClosed
    /\ Len(out) >= 1

(***************************************************************************)
(* C8.  With a non-empty include list, a visited file whose extension is   *)
(* not listed is in no bucket and in no group, whatever the exclude list   *)
(* says.  When it is not banned and of a supported kind its events are its *)
(* discovered-kind event followed by one discard (reason "extension not    *)
(* included", or "sidecar file ignored" for an ignored sidecar); a banned  *)
(* file has the "banned file" discard alone and an unsupported file the    *)
(* unsupported event alone.  A file with a listed extension that passes    *)
(* the other filters is in the bucket of its directory.                    *)
(***************************************************************************)
ReachesFilters(name) ==
    /\ ~BannedMatch(flags.BannedFiles, name)
    /\ TypeFromExt(Ext(name)) # "unknown"

IgnoredSidecar(name) == IsSidecar(name) /\ flags.IgnoreSideCarFiles

C8_IncludeListStrict ==
    flags.IncludedExtensions # {} =>
      \A fi \in 1..Len(catalogs) : \A name \in Visited(fi) :
        /\ Ext(name) \notin flags.IncludedExtensions =>
             /\ ~InSomeBucket(fi, name)
             /\ ~InSomeGroup(fi, name)
             /\ ReachesFilters(name) =>
                  EventsOf(fi, name) =
                    <<Ev(DiscoveredKind(TypeFromExt(Ext(name))), fi, name, ""),
                      Ev("DiscoveredDiscarded", fi, name,
                         IF IgnoredSidecar(name) THEN "sidecar file ignored"
                         ELSE "extension not included")>>
             /\ BannedMatch(flags.BannedFiles, name) =>
                  EventsOf(fi, name) =
                    <<Ev("DiscoveredDiscarded", fi, name, "banned file")>>
             /\ (~BannedMatch(flags.BannedFiles, name) /\ ~ReachesFilters(name)) =>
                  EventsOf(fi, name) =
                    <<Ev("DiscoveredUnsupported", fi, name, "unsupported file type")>>
        /\ (/\ Ext(name) \in flags.IncludedExtensions
            /\ ReachesFilters(name)
            /\ ~IgnoredSidecar(name)
            /\ Ext(name) \notin flags.ExcludedExtensions) =>
             name \in Range(catalogs[fi][CatalogDir(name)])

\* The claim as written: every visited file with an unlisted extension has a
\* discard event that follows its discovered-kind event.
C8_AsWritten ==
    flags.IncludedExtensions # {} =>
      \A fi \in 1..Len(catalogs) : \A name \in Visited(fi) :
        Ext(name) \notin flags.IncludedExtensions =>
           /\ ~InSomeBucket(fi, name)
           /\ ~InSomeGroup(fi, name)
           /\ LET evs == EventsOf(fi, name)
              IN  \E i \in 1..Len(evs), j \in 1..Len(evs) :
                    /\ i < j
                    /\ evs[i].kind \in {"DiscoveredImage", "DiscoveredVideo",
                                        "DiscoveredSidecar", "DiscoveredUnsupported"}
                    /\ evs[j].kind = "DiscoveredDiscarded"

\* Both lists set: an unlisted file that reached the filters was discarded, a
\* listed one was kept and delivered in a group.
C8_Witness ==
    /\ flags.IncludedExtensions # {}
    /\ flags.ExcludedExtensions # {}
    /\ \E name \in Visited(1) :
          /\ Ext(name) \notin flags.IncludedExtensions
          /\ Ext(name) \notin flags.ExcludedExtensions
          /\ ReachesFilters(name)
    /\ \E name \in Visited(1) :
          /\ Ext(name) \notin flags.IncludedExtensions
          /\ Ext(name) \in flags.ExcludedExtensions
          /\ ReachesFilters(name)
    /\ \E n \in 1..Len(out) : Ext(out[n].Assets[1].name) \in flags.IncludedExtensions

(***************************************************************************)
(* C9.  A sidecar whose name minus its last extension is the key of an     *)
(* existing entry is attached to that entry and to no other.  The group    *)
(* received for the entry carries this sidecar, or a file that comes later *)
(* in the candidate list and was written to the same sidecar field: a      *)
(* sidecar whose stem is the key or the key's stem, or a video whose stem  *)
(* is the key.  The tree img.jpg, img.jpg.xmp, clip.jpg, clip.mp4 yields   *)
(* exactly MotionPhoto [clip.jpg, clip.mp4] and None [img.jpg] with the    *)
(* sidecar img.jpg.xmp.                                                    *)
(***************************************************************************)
IndexOf(fs, x) == CHOOSE n \in 1..Len(fs) : fs[n] = x

BucketOf(h) == catalogs[h.fsys][CatalogDir(h.name)]

\* The sidecar s names the key k, and the entry of k exists when s is linked.
KeySidecar(fs, s, k) ==
    /\ IsSidecar(s)
    /\ Stem(s) = k
    /\ IsImage(k) \/ IndexOf(fs, k) < IndexOf(fs, s)

LaterRivals(fs, s, k) ==
    {fs[n] : n \in {m \in (IndexOf(fs, s) + 1)..Len(fs) :
        \/ IsSidecar(fs[m]) /\ (Stem(fs[m]) = k \/ Stem(fs[m]) = Stem(k))
        \/ IsVideo(fs[m]) /\ Stem(fs[m]) = k}}

\* The scan went through every tree, nothing failed and no push was abandoned.
CompletedClean == chanClosed /\ g = NoGroup /\ closed = {}

SidecarScenario ==
    {File(<<>>, S("img", "jpg")), File(<<>>, S3("img", "jpg", "xmp")),
     File(<<>>, S("clip", "jpg")), File(<<>>, S("clip", "mp4"))}

SidecarScenarioGroups ==
    <<[Kind |-> "MotionPhoto",
       Assets |-> <<Handle(1, S("clip", "jpg")), Handle(1, S("clip", "mp4"))>>,
       SideCar |-> EmptyStr, Albums |-> <<>>],
      [Kind |-> "None", Assets |-> <<Handle(1, S("img", "jpg"))>>,
       SideCar |-> S3("img", "jpg", "xmp"), Albums |-> <<>>]>>

C9_KeySidecar ==
    /\ \A n \in 1..Len(out) :
         LET k  == out[n].Assets[1].name
             fs == BucketOf(out[n].Assets[1])
         IN  \A s \in Range(fs) :
                KeySidecar(fs, s, k) => out[n].SideCar \in {s} \cup LaterRivals(fs, s, k)
    /\ p2pc \in {"link", "resolve", "push", "send"} =>
         \A s \in {files[n] : n \in 1..(linkPos - 1)} :
            (IsSidecar(s) /\ Stem(s) \in DOMAIN LinkImages(files)) =>
               \A k \in DOMAIN links : links[k].sidecar = s => k = Stem(s)
    /\ (fsyss[1].content = SidecarScenario /\ CompletedClean) =>
         out = SidecarScenarioGroups

\* The claim as written: the group always carries the sidecar named after its key.
C9_AsWritten ==
    \A n \in 1..Len(out) :
        LET k  == out[n].Assets[1].name
            fs == BucketOf(out[n].Assets[1])
        IN  \A s \in Range(fs) : KeySidecar(fs, s, k) => out[n].SideCar = s

\* The four-file tree was scanned to its end and both groups were received.
C9_Witness ==
    /\ fsyss[1].content = SidecarScenario
    /\ CompletedClean
    /\ Len(out) = 2
    /\ out[2].SideCar = S3("img", "jpg", "xmp")

(***************************************************************************)
(* C10.  Without a fixed album, every group received from a named tree has *)
(* exactly one album.  In Path mode its title is the tree name followed,   *)
(* separator first, by every directory segment down to the parent of the   *)
(* primary asset; in Folder mode it is the last of these segments, or the  *)
(* tree name for an asset at the root.  Tree Lib, asset a/b/img.jpg:       *)
(* Lib#a#b in Path mode, b in Folder mode.                                 *)
(***************************************************************************)
SourceFile(h) == CHOOSE f \in fsyss[h.fsys].content : PathOf(f) = h.name

RECURSIVE Prefixed(_, _)
Prefixed(segs, sep) ==
    IF segs = <<>> THEN <<>> ELSE sep \o Head(segs) \o Prefixed(Tail(segs), sep)

ExpectedPathTitle(h) ==
    fsyss[h.fsys].name \o Prefixed(SourceFile(h).segs, flags.AlbumNamePathSeparator)

ExpectedFolderTitle(h) ==
    LET segs == SourceFile(h).segs
    IN  IF segs = <<>> THEN fsyss[h.fsys].name ELSE segs[Len(segs)]

C10_AlbumTitle ==
    flags.ImportIntoAlbum = EmptyStr =>
      \A n \in 1..Len(out) :
        LET h == out[n].Assets[1]
        IN  fsyss[h.fsys].named =>
              /\ flags.UsePathAsAlbumName = "Path" =>
                   /\ Len(out[n].Albums) = 1
                   /\ out[n].Albums[1].Title = ExpectedPathTitle(h)
                   /\ h.name = <<"a", Slash, "b", Slash, "img", Dot, "jpg">> =>
                        out[n].Albums[1].Title = <<"Lib", "#", "a", "#", "b">>
              /\ flags.UsePathAsAlbumName = "Folder" =>
                   /\ Len(out[n].Albums) = 1
                   /\ out[n].Albums[1].Title = ExpectedFolderTitle(h)
                   /\ h.name = <<"a", Slash, "b", Slash, "img", Dot, "jpg">> =>
                        out[n].Albums[1].Title = <<"b">>

\* Path mode on a named tree: a group of the root and a group of a/b were received.
C10_Witness ==
    /\ flags.UsePathAsAlbumName = "Path"
    /\ fsyss[1].named
    /\ \E n \in 1..Len(out) : out[n].Albums = <<Album(<<Dot>>, <<"Lib">>)>>
    /\ \E n \in 1..Len(out) :
          out[n].Albums = <<Album(<<"a", Slash, "b">>, <<"Lib", "#", "a", "#", "b">>)>>

(***************************************************************************)
(* C11.  The groups are received in a fixed order: every group of an       *)
(* earlier tree before any group of a later tree; in one tree the groups   *)
(* of the lexicographically smaller directory path first; in one directory *)
(* in ascending order of the LinkSet key.  Every group comes from a file   *)
(* of its directory's bucket, so a directory with an empty bucket gives no *)
(* group.                                                                  *)
(***************************************************************************)
GroupBefore(x, y) ==
    LET hx == x.Assets[1]
        hy == y.Assets[1]
    IN  \/ hx.fsys < hy.fsys
        \/ /\ hx.fsys = hy.fsys
           /\ StrLess(CatalogDir(hx.name), CatalogDir(hy.name))
        \/ /\ hx.fsys = hy.fsys
           /\ CatalogDir(hx.name) = CatalogDir(hy.name)
           /\ StrLess(hx.name, hy.name)

C11_DeliveryOrder ==
    /\ \A i \in 1..Len(out), j \in 1..Len(out) : i < j => GroupBefore(out[i], out[j])
    /\ \A n \in 1..Len(out) : InSomeBucket(out[n].Assets[1].fsys, out[n].Assets[1].name)

\* Four groups were received: two keys of the root, then directory a, of the
\* first tree, then one of the second tree.
C11_Witness ==
    /\ Len(out) = 4
    /\ out[1].Assets[1] = Handle(1, <<"clip", Dot, "jpg">>)
    /\ out[2].Assets[1] = Handle(1, <<"img", Dot, "jpg">>)
    /\ out[3].Assets[1] = Handle(1, <<"a", Slash, "img", Dot, "jpg">>)
    /\ out[4].Assets[1].fsys = 2

(***************************************************************************)
(* C12.  The link step of a video changes the entry its priority selects:  *)
(* (a) the entry whose key is the video's name minus its last extension;   *)
(* else (b) an entry whose key minus extension is that stem; else (c) an   *)
(* entry whose key minus extension is the video's full name; else (d) a    *)
(* new entry keyed by the video.  A video with a (b) entry and a (c) entry *)
(* goes to the (b) entry.                                                  *)
(***************************************************************************)
\* The keys whose entry the step from ls to lt created or changed.
Touched(ls, lt) == {k \in DOMAIN lt : k \notin DOMAIN ls \/ lt[k] # ls[k]}

StemMatches(ls, file) == {f \in DOMAIN ls : Stem(f) = Stem(file)}

NameMatches(ls, file) == {f \in DOMAIN ls : Stem(f) = file}

VideoTarget(ls, file) ==
    IF Stem(file) \in DOMAIN ls THEN {Stem(file)}
    ELSE IF StemMatches(ls, file) # {} THEN StemMatches(ls, file)
    ELSE IF NameMatches(ls, file) # {} THEN NameMatches(ls, file)
    ELSE {file}

C12_VideoPriority ==
    [][(/\ p2pc = "link" /\ linkPos <= Len(files) /\ linkPos' = linkPos + 1
        /\ IsVideo(files[linkPos]))
       => /\ Touched(links, links') # {}
          /\ Touched(links, links') \subseteq VideoTarget(links, files[linkPos])]_vars

(***************************************************************************)
(* C13.  Linking is deterministic: the link step of a file has one         *)
(* possible result, also when the stem of a sidecar or of a video matches  *)
(* several entries, so two executions on the same input build the same     *)
(* LinkSet.                                                                *)
(***************************************************************************)
C13_LinkDeterministic ==
    (p2pc = "link" /\ linkPos <= Len(files))
        => Cardinality(LinkFile(links, files[linkPos])) = 1

(***************************************************************************)
(* C14.  Once the context is cancelled while passTwo holds a completed     *)
(* group the consumer has not received, passTwo abandons the push and its  *)
(* goroutine exits, closing the stream, also when the consumer never       *)
(* receives again.                                                         *)
(***************************************************************************)
C14_CancelEndsProducer ==
    (cancelled /\ p2pc \in {"push", "send"}) ~> chanClosed

(***************************************************************************)
(* C15.  The entry being resolved has an image and a video; the image      *)
(* materialises and the video does not.  Then one None group holding only  *)
(* the image is built and handed to the push, no received group holds the  *)
(* image, the goroutine goes on instead of returning, and the log gains    *)
(* exactly one of: an error event naming the video (its materialisation    *)
(* returned an error), or the discard event of the materializer for the    *)
(* video (it is outside the date range).                                   *)
(***************************************************************************)
\* The events the step appended to the log.
NewEvents == {log'[k] : k \in (Len(log) + 1)..Len(log')}

\* P2Resolve on an entry with both files: the image handle stays open, the
\* handle of the video was closed by the materializer.
VideoFailedStep ==
    /\ p2pc = "resolve"
    /\ p2pc' # "resolve" \/ keyPos' # keyPos
    /\ links[keys[keyPos]].image # EmptyStr
    /\ links[keys[keyPos]].video # EmptyStr
    /\ Handle(p2fs, links[keys[keyPos]].image) \in opened' \ closed'
    /\ Handle(p2fs, links[keys[keyPos]].video) \in closed'

ImageOnlyGroupBuilt ==
    /\ p2pc' = "push"
    /\ ~chanClosed'
    /\ g'.Kind = "None"
    /\ g'.Assets = <<Handle(p2fs, links[keys[keyPos]].image)>>
    /\ \A n \in 1..Len(out') : ~Holds(out'[n], Handle(p2fs, links[keys[keyPos]].image))

VideoErrorEvent == Ev("Error", p2fs, links[keys[keyPos]].video, "error")

VideoDiscardEvent ==
    Ev("DiscoveredDiscarded", p2fs, links[keys[keyPos]].video, "asset outside date range")

C15_VideoFallback ==
    [][VideoFailedStep
       => /\ ImageOnlyGroupBuilt
          /\ (VideoErrorEvent \in NewEvents) # (VideoDiscardEvent \in NewEvents)]_vars

\* C15 as written: the error event is recorded whenever the video does not
\* materialise.
C15_AsWritten ==
    [][VideoFailedStep
       => /\ ImageOnlyGroupBuilt
          /\ VideoErrorEvent \in NewEvents]_vars

\* passTwo holds the None group of an entry whose video failed with an error.
C15_Witness ==
    /\ p2pc = "push"
    /\ g.Kind = "None"
    /\ links[keys[keyPos]].image # EmptyStr
    /\ links[keys[keyPos]].video # EmptyStr
    /\ g.Assets = <<Handle(p2fs, links[keys[keyPos]].image)>>
    /\ Ev("Error", p2fs, links[keys[keyPos]].video, "error") \in Range(log)

(***************************************************************************)
(* C16.  No video is lost: when the scan ran to its end without            *)
(* cancellation and every materialisation succeeded, every video of every  *)
(* bucket is an asset of exactly one received group.                       *)
(***************************************************************************)
ReceivedHolding(fi, name) == {n \in 1..Len(out) : Holds(out[n], Handle(fi, name))}

C16_NoVideoLost ==
    (CompletedClean /\ ~cancelled /\ browseErr = "none")
        => \A fi \in DOMAIN catalogs : \A d \in DOMAIN catalogs[fi] :
              \A v \in Range(catalogs[fi][d]) :
                  IsVideo(v) => Cardinality(ReceivedHolding(fi, v)) = 1

====
